---------------------------- MODULE Spec2Model ----------------------------
(***************************************************************************)
(* Normalized Attention Guidance (ComfyUI-NAG): the model-level entry      *)
(* points of the dual-stream (Flux) and joint (SD3 / MMDiT) families, the  *)
(* rebinding of forward behaviour they perform, the batch bookkeeping of   *)
(* NAGFlux.forward_orig and _nag_block_mixing, and the guidance primitive. *)
(*                                                                         *)
(* A tensor that only flows through opaque host layers is represented by   *)
(* its shape (batch size, token count).  The attention output inside       *)
(* _nag_block_mixing is a sequence of rows (one per batch element), each   *)
(* row a feature vector of integers; nag returns rows of exact fractions   *)
(* <<numerator, denominator>>.                                             *)
(***************************************************************************)
EXTENDS Integers, Sequences, FiniteSets, TLC

VARIABLES model, call

vars == <<model, call>>

(***************************** bounds **************************************)
NumDouble == 2
NumSingle == 1
NumJoint  == 2
MaxBatch  == 2
MaxLen    == 2
MaxScale  == 2

(************************ Python / torch helpers ***************************)
Min(a, b) == IF a < b THEN a ELSE b
Max(a, b) == IF a > b THEN a ELSE b
Abs(a)    == IF a < 0 THEN -a ELSE a

\* A slice bound i of a sequence of length n, as Python normalises it:
\* negative bounds count from the end, and every bound is clipped to 0..n.
\* Note that -0 is 0: s[-0:] is the whole of s and s[:-0] is empty.
PyIdx(i, n) == IF i < 0 THEN Max(n + i, 0) ELSE Min(i, n)

\* len(s[lo:]) and len(s[:hi]) for len(s) = n.
LenFrom(n, lo) == n - PyIdx(lo, n)
LenTo(n, hi)   == PyIdx(hi, n)

\* s[lo:], s[:hi] and s[lo:hi] along the batch axis.
SliceFrom(s, lo) == SubSeq(s, PyIdx(lo, Len(s)) + 1, Len(s))
SliceTo(s, hi)   == SubSeq(s, 1, PyIdx(hi, Len(s)))
SliceBetween(s, lo, hi) == SubSeq(s, PyIdx(lo, Len(s)) + 1, PyIdx(hi, Len(s)))

\* Batch size of an elementwise operation on batch sizes a and b under torch
\* broadcasting; -1 when the sizes do not broadcast (a RuntimeError).
Bcast(a, b) ==
    IF a = b THEN a
    ELSE IF a = 1 THEN b
    ELSE IF b = 1 THEN a
    ELSE -1

(*************************** guidance primitive ****************************)
\* L1 norm of a feature vector.
RECURSIVE Norm1(_)
Norm1(v) == IF v = <<>> THEN 0 ELSE Abs(Head(v)) + Norm1(Tail(v))

\* clamp = min(1, tau / r) with r = ng / np, as a fraction <<num, den>>;
\* a zero norm on either side leaves the clamp at 1.
ClampFactor(np, ng, tau) ==
    IF np = 0 \/ ng = 0 THEN <<1, 1>>
    ELSE IF tau[1] * np < tau[2] * ng THEN <<tau[1] * np, tau[2] * ng>>
    ELSE <<1, 1>>

\* nag with the negative term weighted by scale instead of scale - 1.
nag_full_negative(positive, negative, scale, tau, alpha) ==
    LET guidance == [j \in 1..Len(positive) |->
                        positive[j] * scale - negative[j] * scale]
        clamp    == ClampFactor(Norm1(positive), Norm1(guidance), tau)
    IN  [j \in 1..Len(positive) |->
            <<guidance[j] * clamp[1] * alpha[1]
                  + positive[j] * (alpha[2] - alpha[1]) * clamp[2],
              clamp[2] * alpha[2]>>]

\* nag(positive, negative, scale, tau, alpha) on one token row.  tau and alpha
\* are fractions <<num, den>>; the result is a row of fractions.
nag(positive, negative, scale, tau, alpha) ==
    LET guidance == [j \in 1..Len(positive) |->
                        positive[j] * scale - negative[j] * (scale - 1)]
        clamp    == ClampFactor(Norm1(positive), Norm1(guidance), tau)
    IN  [j \in 1..Len(positive) |->
            <<guidance[j] * clamp[1] * alpha[1]
                  + positive[j] * (alpha[2] - alpha[1]) * clamp[2],
              clamp[2] * alpha[2]>>]

\* Two rows of fractions / integers denote the same tensor row.
FracRowEq(fr, ir) ==
    /\ Len(fr) = Len(ir)
    /\ \A j \in 1..Len(fr) : fr[j][1] = ir[j] * fr[j][2]

(***************************** input domains *******************************)
FeatVals == {-1, 0, 2}
Rows     == {<<a, b>> : a \in FeatVals, b \in FeatVals}
Scales   == 1..MaxScale
Taus     == {<<1, 2>>, <<1, 1>>, <<5, 2>>}
Alphas   == {<<0, 1>>, <<1, 4>>, <<1, 2>>, <<1, 1>>}

Cfgs == {[scale |-> 1, tau |-> <<5, 2>>, alpha |-> <<1, 4>>],
         [scale |-> 2, tau |-> <<1, 2>>, alpha |-> <<1, 2>>]}

\* The (nag_scale, nag_tau, nag_alpha) the entry points are called with.
ModelCfgs == {[scale |-> 2, tau |-> <<5, 2>>, alpha |-> <<1, 4>>]}

NoError == "ok"

(************************* shared utilities (utils) ************************)
\* check_nag_activation(context, transformer_options, positive_context,
\*                      nag_negative_context, nag_sigma_end)
check_nag_activation(context, opts, positive_context, neg, nag_sigma_end) ==
    /\ neg.present
    /\ (~opts.has_sigma \/ opts.sigma > nag_sigma_end)
    /\ context.id = positive_context

\* cat_context(context, nag_negative_context, trim_context): the batch sizes
\* add; the sequence length is the shorter one when trimming and the longer
\* one when padding.  pad_pos / pad_neg are the zero rows padded onto the
\* positive / negative context.
cat_context(context, neg, trim_context) ==
    LET len == IF trim_context THEN Min(context.len, neg.len)
               ELSE Max(context.len, neg.len)
    IN  [id |-> context.id, b |-> context.b + neg.b, len |-> len,
         pad_pos |-> IF trim_context THEN 0 ELSE len - context.len,
         pad_neg |-> IF trim_context THEN 0 ELSE len - neg.len]

(************************ dual-stream (Flux) family ************************)
BaseDouble == [fn |-> "DoubleStreamBlock.forward"]
BaseSingle == [fn |-> "SingleStreamBlock.forward"]

PristineFlux ==
    [family        |-> "flux",
     forward       |-> [fn |-> "Flux.forward"],
     forward_orig  |-> "Flux.forward_orig",
     double_blocks |-> [i \in 1..NumDouble |-> [forward |-> BaseDouble, nag |-> <<>>]],
     single_blocks |-> [i \in 1..NumSingle |-> [forward |-> BaseSingle, nag |-> <<>>]]]

\* DoubleStreamBlock.forward(img, txt, vec, pe) of the host: vec modulates
\* both streams, which are then concatenated along the sequence axis for one
\* attention with pe.
DoubleStreamBlock_forward(img_b, txt_b, vec_b, pe_b) ==
    LET i == Bcast(img_b, vec_b)
        t == Bcast(txt_b, vec_b)
    IN  IF i = -1 \/ t = -1 \/ i # t \/ Bcast(i, pe_b) # i
        THEN [err |-> "DoubleStreamBlock: batch mismatch", img_b |-> img_b, txt_b |-> txt_b]
        ELSE [err |-> NoError, img_b |-> i, txt_b |-> t]

\* NAGDoubleStreamBlock.forward: txt carries origin_bsz more rows than img;
\* attention runs over the image rows extended by their last origin_bsz rows,
\* and the block returns img with its own batch size again.  With
\* origin_bsz = 0 guidance is skipped.
NAGDoubleStreamBlock_forward(img_b, txt_b, vec_b, pe_b) ==
    LET o == txt_b - img_b
        t == Bcast(txt_b, vec_b)
    IN  IF o = 0 THEN DoubleStreamBlock_forward(img_b, txt_b, vec_b, pe_b)
        ELSE IF o < 0 \/ t # txt_b \/ img_b + LenFrom(img_b, -o) # txt_b
                \/ Bcast(img_b, pe_b) # img_b
        THEN [err |-> "NAGDoubleStreamBlock: batch mismatch", img_b |-> img_b, txt_b |-> txt_b]
        ELSE [err |-> NoError, img_b |-> img_b, txt_b |-> txt_b]

\* SingleStreamBlock.forward(x, vec, pe) of the host.
SingleStreamBlock_forward(x_b, vec_b, pe_b) ==
    LET r == Bcast(x_b, vec_b)
    IN  IF r = -1 \/ Bcast(r, pe_b) # r
        THEN [err |-> "SingleStreamBlock: batch mismatch", x_b |-> x_b]
        ELSE [err |-> NoError, x_b |-> r]

\* NAGSingleStreamBlock.forward: the fused stream keeps its (expanded) batch.
NAGSingleStreamBlock_forward(x_b, vec_b, pe_b) ==
    LET r == Bcast(x_b, vec_b)
    IN  IF r = -1 \/ Bcast(r, pe_b) # r
        THEN [err |-> "NAGSingleStreamBlock: batch mismatch", x_b |-> x_b]
        ELSE [err |-> NoError, x_b |-> r]

\* block(img=img, txt=txt, vec=vec, pe=pe): the forward bound on the block.
CallDouble(block, img_b, txt_b, vec_b, pe_b) ==
    IF block.forward.fn = "NAGDoubleStreamBlock.forward"
    THEN NAGDoubleStreamBlock_forward(img_b, txt_b, vec_b, pe_b)
    ELSE DoubleStreamBlock_forward(img_b, txt_b, vec_b, pe_b)

CallSingle(block, x_b, vec_b, pe_b) ==
    IF block.forward.fn = "NAGSingleStreamBlock.forward"
    THEN NAGSingleStreamBlock_forward(x_b, vec_b, pe_b)
    ELSE SingleStreamBlock_forward(x_b, vec_b, pe_b)

\* for i, block in enumerate(self.double_blocks): img, txt = block(...)
RECURSIVE RunDouble(_, _, _, _, _, _)
RunDouble(blocks, i, img_b, txt_b, vec_b, pe_b) ==
    IF i > Len(blocks)
    THEN [err |-> NoError, img_b |-> img_b, txt_b |-> txt_b, path |-> <<>>]
    ELSE LET r == CallDouble(blocks[i], img_b, txt_b, vec_b, pe_b)
         IN  IF r.err # NoError
             THEN [err |-> r.err, img_b |-> img_b, txt_b |-> txt_b,
                   path |-> <<blocks[i].forward.fn>>]
             ELSE LET rest == RunDouble(blocks, i + 1, r.img_b, r.txt_b, vec_b, pe_b)
                  IN  [rest EXCEPT !.path = <<blocks[i].forward.fn>> \o @]

\* for i, block in enumerate(self.single_blocks): img = block(img, ...)
RECURSIVE RunSingle(_, _, _, _, _)
RunSingle(blocks, i, x_b, vec_b, pe_b) ==
    IF i > Len(blocks)
    THEN [err |-> NoError, x_b |-> x_b, path |-> <<>>]
    ELSE LET r == CallSingle(blocks[i], x_b, vec_b, pe_b)
         IN  IF r.err # NoError
             THEN [err |-> r.err, x_b |-> x_b, path |-> <<blocks[i].forward.fn>>]
             ELSE LET rest == RunSingle(blocks, i + 1, r.x_b, vec_b, pe_b)
                  IN  [rest EXCEPT !.path = <<blocks[i].forward.fn>> \o @]

\* The result of a forward_orig that stopped with an error.
OrigFailed(fn, err, o, path, vec_b, pe_b, img_b) ==
    [fn |-> fn, err |-> err, origin_bsz |-> o, path |-> path,
     vec_b |-> vec_b, pe_b |-> pe_b, img_b |-> img_b,
     final_img_b |-> -1, final_vec_b |-> -1, out |-> [b |-> -1, t |-> -1]]

\* torch.cat((t, t[-origin_bsz:]), dim=0): the batch size after the extension.
ExtendNegative(b, origin_bsz) == b + LenFrom(b, -origin_bsz)

\* img[:-origin_bsz] without the slice: the negative rows are kept.
StripNegative_kept(b, origin_bsz) == b

\* t[:-origin_bsz]: the batch size after the negative rows are cut.
StripNegative(b, origin_bsz) == LenTo(b, -origin_bsz)

\* NAGFlux.forward_orig(img, img_ids, txt, txt_ids, timesteps, y, ...).
\* img and txt are shapes [b, t]; timesteps, y and the ids have batch sizes
\* ts_b, y_b and ids_b.
NAGFlux_forward_orig(m, img, txt, ts_b, y_b, ids_b) ==
    LET fn         == "NAGFlux.forward_orig"
        origin_bsz == txt.b - img.b
        vec1       == ExtendNegative(ts_b, origin_bsz)
        vec        == Bcast(vec1, y_b)
        dbl        == RunDouble(m.double_blocks, 1, img.b, txt.b, vec, ids_b)
        pe         == ExtendNegative(ids_b, origin_bsz)
        img1       == ExtendNegative(dbl.img_b, origin_bsz)
        sgl        == RunSingle(m.single_blocks, 1, img1, vec, pe)
        img2       == StripNegative(sgl.x_b, origin_bsz)
        vecf       == StripNegative(vec, origin_bsz)
        outb       == Bcast(img2, vecf)
    IN  IF vec = -1
        THEN OrigFailed(fn, "vec + vector_in(y): batch mismatch", origin_bsz,
                        <<>>, vec1, ids_b, img.b)
        ELSE IF dbl.err # NoError
        THEN OrigFailed(fn, dbl.err, origin_bsz, dbl.path, vec, ids_b, dbl.img_b)
        ELSE IF dbl.txt_b # img1
        THEN OrigFailed(fn, "torch.cat((txt, img), 1): batch mismatch",
                        origin_bsz, dbl.path, vec, pe, img1)
        ELSE IF sgl.err # NoError
        THEN OrigFailed(fn, sgl.err, origin_bsz, dbl.path \o sgl.path, vec, pe, img1)
        ELSE IF outb = -1
        THEN OrigFailed(fn, "final_layer: batch mismatch", origin_bsz,
                        dbl.path \o sgl.path, vec, pe, img1)
        ELSE [fn |-> fn, err |-> NoError, origin_bsz |-> origin_bsz,
              path |-> dbl.path \o sgl.path,
              vec_b |-> vec, pe_b |-> pe, img_b |-> img1,
              final_img_b |-> img2, final_vec_b |-> vecf,
              out |-> [b |-> outb, t |-> img.t]]

\* Flux.forward_orig of the host: no batch extension; the blocks it runs are
\* the ones bound on the model.
Flux_forward_orig(m, img, txt, ts_b, y_b, ids_b) ==
    LET fn   == "Flux.forward_orig"
        vec  == Bcast(ts_b, y_b)
        dbl  == RunDouble(m.double_blocks, 1, img.b, txt.b, vec, ids_b)
        sgl  == RunSingle(m.single_blocks, 1, dbl.img_b, vec, ids_b)
        outb == Bcast(sgl.x_b, vec)
    IN  IF vec = -1
        THEN OrigFailed(fn, "vec + vector_in(y): batch mismatch", 0, <<>>,
                        ts_b, ids_b, img.b)
        ELSE IF dbl.err # NoError
        THEN OrigFailed(fn, dbl.err, 0, dbl.path, vec, ids_b, dbl.img_b)
        ELSE IF dbl.txt_b # dbl.img_b
        THEN OrigFailed(fn, "torch.cat((txt, img), 1): batch mismatch", 0,
                        dbl.path, vec, ids_b, dbl.img_b)
        ELSE IF sgl.err # NoError
        THEN OrigFailed(fn, sgl.err, 0, dbl.path \o sgl.path, vec, ids_b, dbl.img_b)
        ELSE IF outb = -1
        THEN OrigFailed(fn, "final_layer: batch mismatch", 0,
                        dbl.path \o sgl.path, vec, ids_b, dbl.img_b)
        ELSE [fn |-> fn, err |-> NoError, origin_bsz |-> 0,
              path |-> dbl.path \o sgl.path,
              vec_b |-> vec, pe_b |-> ids_b, img_b |-> dbl.img_b,
              final_img_b |-> sgl.x_b, final_vec_b |-> vec,
              out |-> [b |-> outb, t |-> img.t]]

\* self.forward_orig(...): the forward_orig bound on the model.
CallForwardOrig(m, img, txt, ts_b, y_b, ids_b) ==
    IF m.forward_orig = "NAGFlux.forward_orig"
    THEN NAGFlux_forward_orig(m, img, txt, ts_b, y_b, ids_b)
    ELSE Flux_forward_orig(m, img, txt, ts_b, y_b, ids_b)

\* NAGFlux.forward, lines 159-179: forward_orig and every block are bound to
\* the guided behaviour, with the padding metadata of this call.
FluxGuidedBindings(m, txt_length, origin_bsz, context_pad_len, nag_pad_len) ==
    [m EXCEPT
       !.forward_orig  = "NAGFlux.forward_orig",
       !.double_blocks = [i \in 1..Len(m.double_blocks) |->
           [m.double_blocks[i] EXCEPT !.forward =
               [fn |-> "NAGDoubleStreamBlock.forward",
                context_pad_len |-> context_pad_len,
                nag_pad_len |-> nag_pad_len]]],
       !.single_blocks = [i \in 1..Len(m.single_blocks) |->
           [m.single_blocks[i] EXCEPT !.forward =
               [fn |-> "NAGSingleStreamBlock.forward",
                txt_length |-> txt_length, origin_bsz |-> origin_bsz,
                context_pad_len |-> context_pad_len,
                nag_pad_len |-> nag_pad_len]]]]

\* The else branch with the single blocks left as they are.
FluxBaselineBindings_double_only(m) ==
    [m EXCEPT
       !.forward_orig  = "Flux.forward_orig",
       !.double_blocks = [i \in 1..Len(m.double_blocks) |->
           [m.double_blocks[i] EXCEPT !.forward = BaseDouble]]]

\* NAGFlux.forward, lines 181-185: forward_orig and every block are bound to
\* the baseline behaviour.
FluxBaselineBindings(m) ==
    [m EXCEPT
       !.forward_orig  = "Flux.forward_orig",
       !.double_blocks = [i \in 1..Len(m.double_blocks) |->
           [m.double_blocks[i] EXCEPT !.forward = BaseDouble]],
       !.single_blocks = [i \in 1..Len(m.single_blocks) |->
           [m.single_blocks[i] EXCEPT !.forward = BaseSingle]]]

\* The branch taken whatever apply_nag says.
FluxSelectBindings_always(m, apply_nag, txt_length, origin_bsz, context_pad_len, nag_pad_len) ==
    FluxGuidedBindings(m, txt_length, origin_bsz, context_pad_len, nag_pad_len)

\* if apply_nag: ... else: ...
FluxSelectBindings(m, apply_nag, txt_length, origin_bsz, context_pad_len, nag_pad_len) ==
    IF apply_nag
    THEN FluxGuidedBindings(m, txt_length, origin_bsz, context_pad_len, nag_pad_len)
    ELSE FluxBaselineBindings(m)

FluxGuidedBound(m) ==
    \/ m.forward_orig = "NAGFlux.forward_orig"
    \/ \E i \in 1..Len(m.double_blocks) :
          m.double_blocks[i].forward.fn = "NAGDoubleStreamBlock.forward"
    \/ \E i \in 1..Len(m.single_blocks) :
          m.single_blocks[i].forward.fn = "NAGSingleStreamBlock.forward"

\* The record of one model-level forward call of the dual-stream family.
FluxCallRecord(m, entry, x, context, opts, ref, apply_nag, cat, cpl, npl, r) ==
    [op |-> "forward", family |-> "flux", entry |-> entry,
     x |-> x, context |-> context, opts |-> opts, ref |-> ref,
     args |-> m.forward,
     entry_guided |-> FluxGuidedBound(m),
     apply_nag |-> apply_nag, cat |-> cat,
     context_pad_len |-> cpl, nag_pad_len |-> npl,
     orig |-> r, path |-> <<entry, r.fn>> \o r.path, err |-> r.err,
     out |-> IF r.err = NoError
             THEN [b |-> r.out.b, t |-> Min(r.out.t, x.t)]
             ELSE r.out]

\* NAGFlux.forward(x, timestep, context, y, ..., positive_context,
\* nag_negative_context, nag_negative_y, nag_sigma_end).  x is [b, t] (t the
\* latent token count), ref the tokens added by ref_latents, y_b the batch
\* size of y.  Returns the model after the call and the record of the call.
NAGFlux_forward(m, x, context, y_b, opts, ref) ==
    LET a         == m.forward
        apply_nag == check_nag_activation(context, opts, a.positive_context,
                                          a.neg, a.nag_sigma_end)
        origin_context_len == context.len
        cat       == IF apply_nag THEN cat_context(context, a.neg, TRUE)
                     ELSE [id |-> context.id, b |-> context.b,
                           len |-> context.len, pad_pos |-> 0, pad_neg |-> 0]
        y2        == IF apply_nag THEN y_b + a.neg.b ELSE y_b
        context_pad_len == cat.len - origin_context_len
        nag_pad_len     == cat.len - a.neg.len
        m2        == FluxSelectBindings(m, apply_nag, cat.len, a.neg.b,
                                        context_pad_len, nag_pad_len)
        img       == [b |-> x.b, t |-> x.t + ref]
        r         == CallForwardOrig(m2, img, [b |-> cat.b, t |-> cat.len],
                                     x.b, y2, x.b)
    IN  [model |-> m2,
         rec   |-> FluxCallRecord(m, "NAGFlux.forward", x, context, opts, ref,
                                  apply_nag, cat,
                                  IF apply_nag THEN context_pad_len ELSE 0,
                                  IF apply_nag THEN nag_pad_len ELSE 0, r)]

\* Flux.forward of the host: it binds nothing and calls self.forward_orig.
Flux_forward(m, x, context, y_b, opts, ref) ==
    LET img == [b |-> x.b, t |-> x.t + ref]
        cat == [id |-> context.id, b |-> context.b, len |-> context.len,
                pad_pos |-> 0, pad_neg |-> 0]
        r   == CallForwardOrig(m, img, [b |-> context.b, t |-> context.len],
                               x.b, y_b, x.b)
    IN  [model |-> m,
         rec   |-> FluxCallRecord(m, "Flux.forward", x, context, opts, ref,
                                  FALSE, cat, 0, 0, r)]

\* model.forward(...): the forward bound on the model.
CallFluxForward(m, x, context, y_b, opts, ref) ==
    IF m.forward.fn = "NAGFlux.forward"
    THEN NAGFlux_forward(m, x, context, y_b, opts, ref)
    ELSE Flux_forward(m, x, context, y_b, opts, ref)

\* set_nag_flux(model, positive_context, nag_negative_cond, nag_scale,
\*              nag_tau, nag_alpha, nag_sigma_end)
set_nag_flux(m, positive_context, neg, cfg, nag_sigma_end) ==
    [m EXCEPT
       !.forward = [fn |-> "NAGFlux.forward",
                    positive_context |-> positive_context,
                    neg |-> neg, nag_sigma_end |-> nag_sigma_end],
       !.double_blocks = [i \in 1..Len(m.double_blocks) |->
           [m.double_blocks[i] EXCEPT !.nag = <<cfg>>]],
       !.single_blocks = [i \in 1..Len(m.single_blocks) |->
           [m.single_blocks[i] EXCEPT !.nag = <<cfg>>]]]

\* set_origin_flux with forward_orig left as it is.
set_origin_flux_keep_orig(m) ==
    [m EXCEPT
       !.forward       = [fn |-> "Flux.forward"],
       !.double_blocks = [i \in 1..Len(m.double_blocks) |->
           [m.double_blocks[i] EXCEPT !.forward = BaseDouble]],
       !.single_blocks = [i \in 1..Len(m.single_blocks) |->
           [m.single_blocks[i] EXCEPT !.forward = BaseSingle]]]

\* set_origin_flux(model)
set_origin_flux(m) ==
    [m EXCEPT
       !.forward_orig  = "Flux.forward_orig",
       !.forward       = [fn |-> "Flux.forward"],
       !.double_blocks = [i \in 1..Len(m.double_blocks) |->
           [m.double_blocks[i] EXCEPT !.forward = BaseDouble]],
       !.single_blocks = [i \in 1..Len(m.single_blocks) |->
           [m.single_blocks[i] EXCEPT !.forward = BaseSingle]]]

(***************************** joint (SD3) family **************************)
BaseJoint == [fn |-> "JointBlock.forward"]

PristineSd3 ==
    [family      |-> "sd3",
     forward     |-> [fn |-> "OpenAISignatureMMDITWrapper.forward"],
     forward_core_with_concat |->
         "OpenAISignatureMMDITWrapper.forward_core_with_concat",
     joint_blocks |-> [i \in 1..NumJoint |-> [forward |-> BaseJoint]],
     nag         |-> <<>>]

\* The defaults of _nag_block_mixing: nag_scale 1.0, nag_tau 2.5, nag_alpha 0.5.
DefaultCfg == [scale |-> 1, tau |-> <<5, 2>>, alpha |-> <<1, 2>>]

\* An integer row as a row of fractions.
ToFrac(row) == [j \in 1..Len(row) |-> <<row[j], 1>>]

\* nag over the batch axis: one guided row per (positive, negative) pair.
NagBatch(pos, neg, cfg) ==
    [i \in 1..Len(pos) |-> nag(pos[i], neg[i], cfg.scale, cfg.tau, cfg.alpha)]

\* The guided rows appended to all but the last origin_bsz rows.
GuidedAttn_drop_one_segment(x_attn, origin_bsz, cfg) ==
    LET x_attn_negative == SliceFrom(x_attn, -origin_bsz)
        x_attn_positive == SliceBetween(x_attn, -origin_bsz * 2, -origin_bsz)
    IN  [i \in 1..Len(SliceTo(x_attn, -origin_bsz)) |->
            ToFrac(SliceTo(x_attn, -origin_bsz)[i])]
        \o NagBatch(x_attn_positive, x_attn_negative, cfg)

\* _nag_block_mixing, lines 56-59: the last origin_bsz rows are the negative
\* rows, the origin_bsz rows before them the positive rows; the result is the
\* rows before both followed by the guided rows.
GuidedAttn(x_attn, origin_bsz, cfg) ==
    LET x_attn_negative == SliceFrom(x_attn, -origin_bsz)
        x_attn_positive == SliceBetween(x_attn, -origin_bsz * 2, -origin_bsz)
    IN  [i \in 1..Len(SliceTo(x_attn, -origin_bsz * 2)) |->
            ToFrac(SliceTo(x_attn, -origin_bsz * 2)[i])]
        \o NagBatch(x_attn_positive, x_attn_negative, cfg)

\* No precondition at all.
MixingPrecondition_none(origin_bsz) == TRUE

\* assert origin_bsz != 0
MixingPrecondition(origin_bsz) == origin_bsz # 0

\* The result of a block call that raised.
BlockFailed(err, context_b, x_b, ran) ==
    [err |-> err, returned |-> FALSE, context_b |-> context_b, x_b |-> x_b,
     ran |-> ran, x_attn |-> <<>>, x_mod_b |-> -1, ctx_mod_b |-> -1]

\* _nag_block_mixing(context, x, context_block, x_block, c, nag_scale,
\* nag_tau, nag_alpha).  context, x and c are given by their batch sizes;
\* attn_src is what optimized_attention returns for the image segment, one
\* row per batch element.  ran lists the steps that were executed.
nag_block_mixing(context_b, x_b, c_b, attn_src, cfg) ==
    LET origin_bsz == context_b - x_b
        ctx_q      == Bcast(context_b, c_b)
        x_mod      == LenTo(c_b, -origin_bsz)
        x_q        == Bcast(x_b, x_mod)
        x_exp      == ExtendNegative(x_q, origin_bsz)
        x_attn     == SubSeq(attn_src, 1, ctx_q)
        x_neg      == SliceFrom(x_attn, -origin_bsz)
        x_pos      == SliceBetween(x_attn, -origin_bsz * 2, -origin_bsz)
        guided     == GuidedAttn(x_attn, origin_bsz, cfg)
        x_out      == Bcast(Len(guided), x_q)
    IN  IF ~MixingPrecondition(origin_bsz)
        THEN BlockFailed("AssertionError", context_b, x_b, <<>>)
        ELSE IF ctx_q = -1
        THEN BlockFailed("context pre_attention: batch mismatch", context_b, x_b, <<>>)
        ELSE IF x_q = -1
        THEN BlockFailed("x pre_attention: batch mismatch", context_b, x_b,
                         <<"context_block.pre_attention">>)
        ELSE IF ctx_q # x_exp
        THEN BlockFailed("torch.cat(qkv, dim=1): batch mismatch", context_b, x_b,
                         <<"context_block.pre_attention", "x_block.pre_attention">>)
        ELSE IF Len(x_pos) # Len(x_neg)
        THEN BlockFailed("nag: shape mismatch", context_b, x_b,
                         <<"context_block.pre_attention", "x_block.pre_attention",
                           "optimized_attention">>)
        ELSE IF x_out = -1
        THEN BlockFailed("x post_attention: batch mismatch", context_b, x_b,
                         <<"context_block.pre_attention", "x_block.pre_attention",
                           "optimized_attention", "nag",
                           "context_block.post_attention">>)
        ELSE [err |-> NoError, returned |-> TRUE,
              context_b |-> ctx_q, x_b |-> x_out,
              ran |-> <<"context_block.pre_attention", "x_block.pre_attention",
                        "optimized_attention", "nag",
                        "context_block.post_attention", "x_block.post_attention">>,
              x_attn |-> guided, x_mod_b |-> x_mod, ctx_mod_b |-> c_b]

\* JointBlock.forward of the host (block_mixing): context and x are each
\* modulated by c and concatenated along the sequence axis for one attention.
JointBlock_forward(context_b, x_b, c_b) ==
    LET ctx_q == Bcast(context_b, c_b)
        x_q   == Bcast(x_b, c_b)
    IN  IF ctx_q = -1 \/ x_q = -1 \/ ctx_q # x_q
        THEN BlockFailed("JointBlock: batch mismatch", context_b, x_b, <<>>)
        ELSE [err |-> NoError, returned |-> TRUE, context_b |-> ctx_q,
              x_b |-> x_q, ran |-> <<"block_mixing">>, x_attn |-> <<>>,
              x_mod_b |-> c_b, ctx_mod_b |-> c_b]

\* What optimized_attention returns inside the block stack: an opaque tensor,
\* here a fixed one with one row per batch element.
AttnStub == [i \in 1..(2 * MaxBatch) |-> IF i % 2 = 1 THEN <<2, -1>> ELSE <<-1, 0>>]

\* self.joint_blocks[i](context, x, c=c_mod, ...): the forward bound on the block.
CallJoint(block, context_b, x_b, c_b) ==
    IF block.forward.fn = "NAGJointBlock.forward"
    THEN nag_block_mixing(context_b, x_b, c_b, AttnStub, block.forward.nag)
    ELSE JointBlock_forward(context_b, x_b, c_b)

\* for i in range(blocks): context, x = self.joint_blocks[i](context, x, c=c_mod)
RECURSIVE RunJoint(_, _, _, _, _)
RunJoint(blocks, i, context_b, x_b, c_b) ==
    IF i > Len(blocks)
    THEN [err |-> NoError, context_b |-> context_b, x_b |-> x_b, blocks |-> <<>>]
    ELSE LET r    == CallJoint(blocks[i], context_b, x_b, c_b)
             this == [fn |-> blocks[i].forward.fn, context_b |-> context_b,
                      x_b |-> x_b, err |-> r.err]
         IN  IF r.err # NoError
             THEN [err |-> r.err, context_b |-> context_b, x_b |-> x_b,
                   blocks |-> <<this>>]
             ELSE LET rest == RunJoint(blocks, i + 1, r.context_b, r.x_b, c_b)
                  IN  [rest EXCEPT !.blocks = <<this>> \o @]

\* c_mod[:len(x)], line 153.
FinalMod(c_b, x_b) == LenTo(c_b, x_b)

\* NAGOpenAISignatureMMDITWrapper.forward_core_with_concat(x, c_mod, context).
NAG_forward_core_with_concat(m, x_b, c_b, context_b) ==
    LET run  == RunJoint(m.joint_blocks, 1, context_b, x_b, c_b)
        outb == Bcast(run.x_b, FinalMod(c_b, run.x_b))
    IN  [fn |-> "NAGOpenAISignatureMMDITWrapper.forward_core_with_concat",
         blocks |-> run.blocks,
         err |-> IF run.err # NoError THEN run.err
                 ELSE IF outb = -1 THEN "final_layer: batch mismatch"
                 ELSE NoError,
         out_b |-> IF run.err # NoError THEN -1 ELSE outb]

\* OpenAISignatureMMDITWrapper.forward_core_with_concat of the host.
Base_forward_core_with_concat(m, x_b, c_b, context_b) ==
    LET run  == RunJoint(m.joint_blocks, 1, context_b, x_b, c_b)
        outb == Bcast(run.x_b, c_b)
    IN  [fn |-> "OpenAISignatureMMDITWrapper.forward_core_with_concat",
         blocks |-> run.blocks,
         err |-> IF run.err # NoError THEN run.err
                 ELSE IF outb = -1 THEN "final_layer: batch mismatch"
                 ELSE NoError,
         out_b |-> IF run.err # NoError THEN -1 ELSE outb]

\* self.forward_core_with_concat(...): the one bound on the model.
CallForwardCore(m, x_b, c_b, context_b) ==
    IF m.forward_core_with_concat =
           "NAGOpenAISignatureMMDITWrapper.forward_core_with_concat"
    THEN NAG_forward_core_with_concat(m, x_b, c_b, context_b)
    ELSE Base_forward_core_with_concat(m, x_b, c_b, context_b)

\* NAGOpenAISignatureMMDITWrapper.forward, lines 177-187.
Sd3GuidedBindings(m) ==
    [m EXCEPT
       !.forward_core_with_concat =
           "NAGOpenAISignatureMMDITWrapper.forward_core_with_concat",
       !.joint_blocks = [i \in 1..Len(m.joint_blocks) |->
           [forward |-> [fn |-> "NAGJointBlock.forward", nag |-> m.nag[1]]]]]

\* The else branch with the blocks left as they are.
Sd3BaselineBindings_core_only(m) ==
    [m EXCEPT
       !.forward_core_with_concat =
           "OpenAISignatureMMDITWrapper.forward_core_with_concat"]

\* NAGOpenAISignatureMMDITWrapper.forward, lines 189-191.
Sd3BaselineBindings(m) ==
    [m EXCEPT
       !.forward_core_with_concat =
           "OpenAISignatureMMDITWrapper.forward_core_with_concat",
       !.joint_blocks = [i \in 1..Len(m.joint_blocks) |-> [forward |-> BaseJoint]]]

\* if apply_nag: ... else: ...
Sd3SelectBindings(m, apply_nag) ==
    IF apply_nag THEN Sd3GuidedBindings(m) ELSE Sd3BaselineBindings(m)

Sd3GuidedBound(m) ==
    \/ m.forward_core_with_concat =
           "NAGOpenAISignatureMMDITWrapper.forward_core_with_concat"
    \/ \E i \in 1..Len(m.joint_blocks) :
          m.joint_blocks[i].forward.fn = "NAGJointBlock.forward"

\* The record of one model-level forward call of the joint family.
Sd3CallRecord(m, entry, x_b, context, opts, apply_nag, cat, c_b, err, core) ==
    [op |-> "forward", family |-> "sd3", entry |-> entry,
     x |-> [b |-> x_b], context |-> context, opts |-> opts,
     args |-> m.forward, entry_guided |-> Sd3GuidedBound(m),
     apply_nag |-> apply_nag, cat |-> cat, c_b |-> c_b,
     blocks |-> core.blocks,
     path |-> <<entry>> \o (IF core.fn = "" THEN <<>> ELSE <<core.fn>>)
                  \o [i \in 1..Len(core.blocks) |-> core.blocks[i].fn],
     err |-> IF err # NoError THEN err ELSE core.err,
     out |-> [b |-> core.out_b]]

NoCore == [fn |-> "", blocks |-> <<>>, err |-> NoError, out_b |-> -1]

\* NAGOpenAISignatureMMDITWrapper.forward(x, timesteps, context, y, ...).
NAGSd3_forward(m, x_b, context, y_b, opts) ==
    LET a         == m.forward
        apply_nag == check_nag_activation(context, opts, a.positive_context,
                                          a.neg, a.nag_sigma_end)
        cat       == IF apply_nag THEN cat_context(context, a.neg, FALSE)
                     ELSE [id |-> context.id, b |-> context.b,
                           len |-> context.len, pad_pos |-> 0, pad_neg |-> 0]
        y2        == IF apply_nag THEN y_b + a.neg.b ELSE y_b
        m2        == Sd3SelectBindings(m, apply_nag)
        c0        == x_b
        origin_bsz == cat.b - x_b
        c1        == IF apply_nag THEN ExtendNegative(c0, origin_bsz) ELSE c0
        c         == Bcast(c1, y2)
    IN  [model |-> m2,
         rec   |-> IF c = -1
                   THEN Sd3CallRecord(m, "NAGOpenAISignatureMMDITWrapper.forward",
                                      x_b, context, opts, apply_nag, cat, c1,
                                      "c + y: batch mismatch", NoCore)
                   ELSE Sd3CallRecord(m, "NAGOpenAISignatureMMDITWrapper.forward",
                                      x_b, context, opts, apply_nag, cat, c,
                                      NoError, CallForwardCore(m2, x_b, c, cat.b))]

\* OpenAISignatureMMDITWrapper.forward of the host.
Sd3_forward(m, x_b, context, y_b, opts) ==
    LET cat == [id |-> context.id, b |-> context.b, len |-> context.len,
                pad_pos |-> 0, pad_neg |-> 0]
        c   == Bcast(x_b, y_b)
    IN  [model |-> m,
         rec   |-> IF c = -1
                   THEN Sd3CallRecord(m, "OpenAISignatureMMDITWrapper.forward",
                                      x_b, context, opts, FALSE, cat, x_b,
                                      "c + y: batch mismatch", NoCore)
                   ELSE Sd3CallRecord(m, "OpenAISignatureMMDITWrapper.forward",
                                      x_b, context, opts, FALSE, cat, c,
                                      NoError, CallForwardCore(m, x_b, c, context.b))]

CallSd3Forward(m, x_b, context, y_b, opts) ==
    IF m.forward.fn = "NAGOpenAISignatureMMDITWrapper.forward"
    THEN NAGSd3_forward(m, x_b, context, y_b, opts)
    ELSE Sd3_forward(m, x_b, context, y_b, opts)

\* set_nag_sd3(model, positive_context, nag_negative_cond, nag_scale,
\*             nag_tau, nag_alpha, nag_sigma_end)
set_nag_sd3(m, positive_context, neg, cfg, nag_sigma_end) ==
    [m EXCEPT
       !.nag = <<cfg>>,
       !.forward = [fn |-> "NAGOpenAISignatureMMDITWrapper.forward",
                    positive_context |-> positive_context,
                    neg |-> neg, nag_sigma_end |-> nag_sigma_end]]

\* set_origin_sd3(model)
set_origin_sd3(m) ==
    [m EXCEPT
       !.forward = [fn |-> "OpenAISignatureMMDITWrapper.forward"],
       !.forward_core_with_concat =
           "OpenAISignatureMMDITWrapper.forward_core_with_concat",
       !.joint_blocks = [i \in 1..Len(m.joint_blocks) |-> [forward |-> BaseJoint]]]

(******************************* inputs ************************************)
Batches   == 1..MaxBatch
Lens      == 1..MaxLen
Toks      == {2}
RefToks   == {0, 1}
SigmaEnds == {1}
Options   == {[has_sigma |-> FALSE, sigma |-> 0]}
                 \cup {[has_sigma |-> TRUE, sigma |-> s] : s \in {0, 1, 2}}
CondIds   == {"positive", "other"}
NegConds  == {[present |-> FALSE, b |-> 0, len |-> 0]}
                 \cup {[present |-> TRUE, b |-> b, len |-> l] :
                          b \in Batches, l \in Lens}

(************************ dual-stream actions ******************************)
SetNagFlux ==
    /\ model.family = "flux"
    /\ \E neg \in NegConds, cfg \in ModelCfgs, se \in SigmaEnds :
          model' = set_nag_flux(model, "positive", neg, cfg, se)
    /\ call' = [op |-> "set_nag_flux"]

SetOriginFlux ==
    /\ model.family = "flux"
    /\ model' = set_origin_flux(model)
    /\ call' = [op |-> "set_origin_flux"]

\* One sampling step: the host calls model.forward with a latent batch, the
\* conditioning of the branch being evaluated and its pooled vector.
FluxForward ==
    /\ model.family = "flux"
    /\ \E b \in Batches, t \in Toks, l \in Lens, id \in CondIds,
          opts \in Options, ref \in RefToks :
          \E r \in {CallFluxForward(model, [b |-> b, t |-> t],
                                    [id |-> id, b |-> b, len |-> l], b, opts, ref)} :
              /\ model' = r.model
              /\ call' = r.rec

\* A direct call of model.forward_orig with baseline inputs (txt and img of
\* the same batch size), as host code outside model.forward makes it.
FluxForwardOrig ==
    /\ model.family = "flux"
    /\ \E b \in Batches, t \in Toks, l \in Lens :
          call' = [op |-> "forward_orig", family |-> "flux",
                   img |-> [b |-> b, t |-> t], txt |-> [b |-> b, t |-> l],
                   orig |-> CallForwardOrig(model, [b |-> b, t |-> t],
                                            [b |-> b, t |-> l], b, b, b)]
    /\ UNCHANGED model

(*************************** joint-family actions **************************)
SetNagSd3 ==
    /\ model.family = "sd3"
    /\ \E neg \in NegConds, cfg \in ModelCfgs, se \in SigmaEnds :
          model' = set_nag_sd3(model, "positive", neg, cfg, se)
    /\ call' = [op |-> "set_nag_sd3"]

SetOriginSd3 ==
    /\ model.family = "sd3"
    /\ model' = set_origin_sd3(model)
    /\ call' = [op |-> "set_origin_sd3"]

Sd3Forward ==
    /\ model.family = "sd3"
    /\ \E b \in Batches, l \in Lens, id \in CondIds, opts \in Options :
          \E r \in {CallSd3Forward(model, b, [id |-> id, b |-> b, len |-> l],
                                   b, opts)} :
              /\ model' = r.model
              /\ call' = r.rec

AttnRows == {<<2, -1>>, <<-1, 0>>}

PristineModel == [family |-> "none"]

(************************ the guidance primitive alone *********************)
\* The inputs of one call are drawn in the initial state.
InitNag ==
    /\ model = PristineModel
    /\ \E p \in Rows, n \in Rows, s \in Scales, t \in Taus, a \in Alphas :
          call = [op |-> "nag_args", positive |-> p, negative |-> n,
                  scale |-> s, tau |-> t, alpha |-> a]

NagCall ==
    /\ call.op = "nag_args"
    /\ call' = [op |-> "nag", positive |-> call.positive,
                negative |-> call.negative, scale |-> call.scale,
                tau |-> call.tau, alpha |-> call.alpha,
                out |-> nag(call.positive, call.negative, call.scale,
                            call.tau, call.alpha)]
    /\ UNCHANGED model

NextNag == NagCall

SpecNag == InitNag /\ [][NextNag]_vars

(***************************************************************************)
(* C5 (as stated): for every positive, negative and every tau > 0,         *)
(* nag(positive, negative, scale = 1, tau, alpha = 1) is exactly positive. *)
(***************************************************************************)
C5_PassThroughAnyTau ==
    (call.op = "nag" /\ call.scale = 1 /\ call.alpha = <<1, 1>>)
        => FracRowEq(call.out, call.positive)

(***************************************************************************)
(* C5 (amended): for every positive, negative and every tau >= 1,          *)
(* nag(positive, negative, scale = 1, tau, alpha = 1) is exactly positive; *)
(* for tau < 1 the clamp min(1, tau / r) with r = 1 scales the row by tau. *)
(***************************************************************************)
C5_PassThroughTauGeOne ==
    (call.op = "nag" /\ call.scale = 1 /\ call.alpha = <<1, 1>>
        /\ call.tau[1] >= call.tau[2])
        => FracRowEq(call.out, call.positive)

C5_Witness ==
    /\ call.op = "nag" /\ call.scale = 1 /\ call.alpha = <<1, 1>>
    /\ call.tau = <<5, 2>>
    /\ call.positive = <<2, -1>> /\ call.negative = <<-1, 2>>
    /\ FracRowEq(call.out, call.positive)

(***************************** the models *********************************)
Init ==
    /\ model \in {PristineFlux, PristineSd3}
    /\ call = [op |-> "init"]

Next ==
    \/ SetNagFlux
    \/ SetOriginFlux
    \/ FluxForward
    \/ FluxForwardOrig
    \/ SetNagSd3
    \/ SetOriginSd3
    \/ Sd3Forward

Spec == Init /\ [][Next]_vars

(************************* the mixing step alone ***************************)
\* A joint-family model as the entry points leave it: pristine, or with the
\* guided behaviour bound by an activated forward call.
MixingModels ==
    {PristineSd3}
        \cup {Sd3GuidedBindings(set_nag_sd3(PristineSd3, "positive",
                   [present |-> TRUE, b |-> 1, len |-> 1], cfg, 1)) : cfg \in Cfgs}

\* The inputs of one direct call of the mixing step on a block are drawn in
\* the initial state: image batch x_b, context batch x_b + n, c with one row
\* per context row, and the attention output the kernel will return.
InitMixing ==
    /\ model \in MixingModels
    /\ \E x_b \in Batches :
         \E n \in 0..x_b :
           \E attn \in [1..(x_b + n) -> AttnRows], cfg \in Cfgs \cup {DefaultCfg} :
              call = [op |-> "mixing_args", x_b |-> x_b, context_b |-> x_b + n,
                      c_b |-> x_b + n, attn |-> attn, cfg |-> cfg]

NagBlockMixing ==
    /\ call.op = "mixing_args"
    /\ call' = [op |-> "nag_block_mixing", x_b |-> call.x_b,
                context_b |-> call.context_b, c_b |-> call.c_b,
                attn |-> call.attn, cfg |-> call.cfg,
                res |-> nag_block_mixing(call.context_b, call.x_b, call.c_b,
                                         call.attn, call.cfg)]
    /\ UNCHANGED model

NextMixing == NagBlockMixing

SpecMixing == InitMixing /\ [][NextMixing]_vars

(******************************** claims ***********************************)
GuidedFns ==
    {"NAGFlux.forward_orig", "NAGDoubleStreamBlock.forward",
     "NAGSingleStreamBlock.forward",
     "NAGOpenAISignatureMMDITWrapper.forward_core_with_concat",
     "NAGJointBlock.forward"}

GuidedEntries == {"NAGFlux.forward", "NAGOpenAISignatureMMDITWrapper.forward"}

GuidedForwardCall == call.op = "forward" /\ call.entry \in GuidedEntries

(***************************************************************************)
(* C1: a guided dual-stream forward call with image batch B, T latent      *)
(* tokens and negative conditioning of batch B returns without error a     *)
(* tensor of batch B and T tokens, the shape the baseline call returns:    *)
(* vec, pe and img are each extended by B rows in forward_orig and         *)
(* final_layer receives img and vec of batch B.                            *)
(***************************************************************************)
C1_ShapeRestored ==
    (GuidedForwardCall /\ call.family = "flux" /\ call.apply_nag
        /\ call.args.neg.b = call.x.b)
    => /\ call.err = NoError
       /\ call.orig.fn = "NAGFlux.forward_orig"
       /\ call.orig.vec_b = 2 * call.x.b
       /\ call.orig.pe_b = 2 * call.x.b
       /\ call.orig.img_b = 2 * call.x.b
       /\ call.orig.final_img_b = call.x.b
       /\ call.orig.final_vec_b = call.x.b
       /\ call.out = [b |-> call.x.b, t |-> call.x.t]
       /\ call.out = Flux_forward(PristineFlux, call.x, call.context, call.x.b,
                                  call.opts, call.ref).rec.out

C1_Witness ==
    /\ GuidedForwardCall /\ call.family = "flux" /\ call.apply_nag
    /\ call.x.b = MaxBatch /\ call.args.neg.b = MaxBatch /\ call.ref = 1
    /\ call.err = NoError
    /\ call.out.b = MaxBatch

(***************************************************************************)
(* C2: once set_origin_flux / set_origin_sd3 has run, whatever calls came  *)
(* before, every behaviour binding of the model and of its blocks is the   *)
(* baseline one, and a forward call made then runs the path and gives the  *)
(* result the pristine model gives on the same inputs.                     *)
(***************************************************************************)
C2_RoundTrip ==
    /\ (model.family = "flux" /\ model.forward.fn = "Flux.forward")
       => /\ model.forward_orig = PristineFlux.forward_orig
          /\ \A i \in 1..NumDouble : model.double_blocks[i].forward = BaseDouble
          /\ \A i \in 1..NumSingle : model.single_blocks[i].forward = BaseSingle
    /\ (model.family = "sd3"
            /\ model.forward.fn = "OpenAISignatureMMDITWrapper.forward")
       => /\ model.forward_core_with_concat = PristineSd3.forward_core_with_concat
          /\ \A i \in 1..NumJoint : model.joint_blocks[i].forward = BaseJoint
    /\ (call.op = "forward" /\ call.entry = "Flux.forward")
       => call = Flux_forward(PristineFlux, call.x, call.context, call.x.b,
                              call.opts, call.ref).rec
    /\ (call.op = "forward" /\ call.entry = "OpenAISignatureMMDITWrapper.forward")
       => call = Sd3_forward(PristineSd3, call.x.b, call.context, call.x.b,
                             call.opts).rec

C2_Witness ==
    /\ model.family = "flux"
    /\ model.double_blocks[1].nag # <<>>
    /\ call.op = "forward" /\ call.entry = "Flux.forward"
    /\ call.err = NoError
    /\ call.path = <<"Flux.forward", "Flux.forward_orig">>
                       \o [i \in 1..NumDouble |-> "DoubleStreamBlock.forward"]
                       \o [i \in 1..NumSingle |-> "SingleStreamBlock.forward"]

(***************************************************************************)
(* C3: a guided-model forward call takes the guided branch if and only if  *)
(* negative conditioning is present and (sigma is unavailable or           *)
(* sigma > sigma_end) and the conditioning is the designated positive one; *)
(* in every other combination it takes the baseline branch.                *)
(***************************************************************************)
C3_Activation ==
    GuidedForwardCall
    => LET expected ==
               /\ call.args.neg.present
               /\ (~call.opts.has_sigma \/ call.opts.sigma > call.args.nag_sigma_end)
               /\ call.context.id = call.args.positive_context
       IN  /\ call.apply_nag = expected
           /\ call.family = "flux"
              => /\ (model.forward_orig = "NAGFlux.forward_orig") = expected
                 /\ (call.path[2] = "NAGFlux.forward_orig") = expected
           /\ call.family = "sd3"
              => (model.forward_core_with_concat =
                     "NAGOpenAISignatureMMDITWrapper.forward_core_with_concat")
                         = expected

C3_Witness ==
    /\ GuidedForwardCall /\ call.family = "flux"
    /\ call.args.neg.present
    /\ call.opts.has_sigma /\ call.opts.sigma > call.args.nag_sigma_end
    /\ call.context.id = call.args.positive_context
    /\ call.apply_nag
    /\ call.path[2] = "NAGFlux.forward_orig"

(***************************************************************************)
(* C4: in every guided-model forward call the stack-level function and     *)
(* every block that runs are all guided when the activation predicate is   *)
(* true and all baseline when it is false, whatever was bound before the   *)
(* call; the bindings left on the model are uniform in the same way.       *)
(***************************************************************************)
C4_UniformMode ==
    GuidedForwardCall
    => /\ \A i \in 2..Len(call.path) : (call.path[i] \in GuidedFns) = call.apply_nag
       /\ call.family = "flux"
          => /\ (model.forward_orig \in GuidedFns) = call.apply_nag
             /\ \A i \in 1..NumDouble :
                   (model.double_blocks[i].forward.fn \in GuidedFns) = call.apply_nag
             /\ \A i \in 1..NumSingle :
                   (model.single_blocks[i].forward.fn \in GuidedFns) = call.apply_nag
       /\ call.family = "sd3"
          => /\ (model.forward_core_with_concat \in GuidedFns) = call.apply_nag
             /\ \A i \in 1..NumJoint :
                   (model.joint_blocks[i].forward.fn \in GuidedFns) = call.apply_nag

C4_Witness ==
    /\ GuidedForwardCall /\ call.family = "flux"
    /\ call.entry_guided /\ ~call.apply_nag
    /\ call.err = NoError
    /\ Len(call.path) = 2 + NumDouble + NumSingle

(***************************************************************************)
(* C6: the guided forward_orig called with origin_bsz = 0 (txt and img of  *)
(* the same batch size) completes without error, leaves vec, pe and img at *)
(* the input batch size and returns an output of the input batch size.     *)
(***************************************************************************)
C6_ZeroOriginSkipped ==
    (call.op = "forward_orig" /\ call.orig.fn = "NAGFlux.forward_orig"
        /\ call.orig.origin_bsz = 0)
    => /\ call.orig.err = NoError
       /\ call.orig.vec_b = call.img.b
       /\ call.orig.pe_b = call.img.b
       /\ call.orig.img_b = call.img.b
       /\ call.orig.out.b = call.img.b

(***************************************************************************)
(* C8: in a guided dual-stream forward call the padding metadata bound     *)
(* into the blocks is non-negative and is the padding cat_context added:   *)
(* context_pad_len rows on the positive context and nag_pad_len rows on    *)
(* the negative context.                                                   *)
(***************************************************************************)
C8_PadLens ==
    (GuidedForwardCall /\ call.family = "flux" /\ call.apply_nag)
    => /\ \A i \in 1..NumDouble :
             /\ model.double_blocks[i].forward.context_pad_len >= 0
             /\ model.double_blocks[i].forward.nag_pad_len >= 0
             /\ model.double_blocks[i].forward.context_pad_len = call.cat.pad_pos
             /\ model.double_blocks[i].forward.nag_pad_len = call.cat.pad_neg
       /\ \A i \in 1..NumSingle :
             /\ model.single_blocks[i].forward.context_pad_len >= 0
             /\ model.single_blocks[i].forward.nag_pad_len >= 0
             /\ model.single_blocks[i].forward.context_pad_len = call.cat.pad_pos
             /\ model.single_blocks[i].forward.nag_pad_len = call.cat.pad_neg

(***************************************************************************)
(* C10: no model-level forward call of the joint family, after any         *)
(* sequence of set_nag_sd3, forward calls and set_origin_sd3, runs a       *)
(* guided joint block with context batch equal to image batch; the         *)
(* assertion origin_bsz != 0 never fails there.                            *)
(***************************************************************************)
C10_AssertUnreachable ==
    (call.op = "forward" /\ call.family = "sd3")
    => /\ call.err # "AssertionError"
       /\ \A i \in 1..Len(call.blocks) :
             call.blocks[i].fn = "NAGJointBlock.forward"
                 => call.blocks[i].context_b # call.blocks[i].x_b

C10_Witness ==
    /\ GuidedForwardCall /\ call.family = "sd3"
    /\ call.entry_guided /\ ~call.apply_nag
    /\ call.err = NoError
    /\ Len(call.blocks) = NumJoint
    /\ \A i \in 1..NumJoint : call.blocks[i].context_b = call.blocks[i].x_b

(***************************************************************************)
(* C7: the guided joint block with image batch B and context batch B + n,  *)
(* 1 <= n <= B, returns an image tensor of batch B whose attention rows    *)
(* 1 .. B-n are the unmodified rows and whose row B-n+i is                 *)
(* nag(row B-n+i, row B+i); the image sub-block is modulated with the      *)
(* first B rows of c and the context sub-block with all B + n rows.        *)
(***************************************************************************)
C7_ThreeSegments ==
    (call.op = "nag_block_mixing" /\ call.context_b > call.x_b)
    => LET B == call.x_b
           n == call.context_b - call.x_b
           r == call.res
       IN  /\ r.err = NoError
           /\ r.returned
           /\ Len(r.x_attn) = B
           /\ \A i \in 1..(B - n) : r.x_attn[i] = ToFrac(call.attn[i])
           /\ \A i \in 1..n :
                 r.x_attn[B - n + i] =
                     nag(call.attn[B - n + i], call.attn[B + i],
                         call.cfg.scale, call.cfg.tau, call.cfg.alpha)
           /\ r.x_b = B
           /\ r.x_mod_b = B
           /\ r.ctx_mod_b = B + n

C7_Witness ==
    /\ call.op = "nag_block_mixing"
    /\ call.x_b = 2 /\ call.context_b = 3
    /\ call.attn[1] # call.attn[2] /\ call.attn[2] # call.attn[3]
    /\ call.res.err = NoError
    /\ Len(call.res.x_attn) = 2
    /\ call.res.x_attn[1] = ToFrac(call.attn[1])

(***************************************************************************)
(* C9: the mixing step called with context batch equal to image batch      *)
(* raises the assertion before any pre-attention, attention or             *)
(* post-attention step runs, returns no (context, x) and leaves every      *)
(* binding of the model and its blocks as it was.                          *)
(***************************************************************************)
C9_AssertFirst ==
    [][(call'.op = "nag_block_mixing" /\ call'.context_b = call'.x_b)
          => /\ call'.res.err = "AssertionError"
             /\ call'.res.ran = <<>>
             /\ ~call'.res.returned
             /\ call'.res.x_attn = <<>>
             /\ model' = model]_vars

C9_Witness ==
    /\ call.op = "nag_block_mixing"
    /\ call.context_b = call.x_b
    /\ call.res.err = "AssertionError"
    /\ call.res.ran = <<>>
    /\ Sd3GuidedBound(model)

=============================================================================
